---- MODULE Spec2Model ----
(***************************************************************************)
(* torch-uncertainty: the classification routines (single and ensemble),   *)
(* the losses they construct lazily, and the TinyImageNet datamodule.      *)
(*                                                                         *)
(* The routine is a passive object driven by an external trainer: every    *)
(* callback (training_step, validation_step, test_step, the epoch-end      *)
(* hooks, on_test_start) is one action.  An exception raised inside a      *)
(* callback is recorded in `raised` and ends the run.                      *)
(***************************************************************************)
EXTENDS Integers, Sequences, FiniteSets, TLC

(***************************************************************************)
(* Bounds of the model.                                                    *)
(***************************************************************************)
\* step callbacks (training, validation, test) the trainer issues in a run
MaxSteps == 2
\* samples per batch
BatchSize == 2
\* estimators of the ensemble routine
NumEstimators == 2
\* largest current_epoch handed to DECLoss.forward
MaxEpoch == 4
\* largest batch_size of the datamodule
MaxBatchSize == 2
\* largest num_samples of an ELBOLoss
MaxSamples == 2
\* largest number of classes of a stacked logits tensor
MaxClasses == 3

VARIABLES
    stage,      \* "new" | "ready" | "failed": the routine's construction
    self,       \* the routine's hyperparameter attributes
    loss,       \* self.loss: the loss handle and whether the model is bound
    binds,      \* executions of `self.loss = partial(self.loss, model=...)`
    created,    \* names of the metric pools __init__ created
    pools,      \* pool name -> sequence of the updates it accumulated
    scaler,     \* self.scaler
    cal_model,  \* self.cal_model
    raised,     \* the exception that ended the run, if any
    lastCall,   \* the callback that ran last
    opLog,      \* pool operations of the callback that ran last
    steps,      \* step callbacks issued so far
    testLog,    \* dataloader index of each test batch of the current epoch
    dm,         \* TinyImageNetDataModule attributes
    dmOut,      \* what the last datamodule call returned or raised
    dec,        \* DECLoss attributes
    decOut,     \* what the last DECLoss call returned or raised
    elbo,       \* ELBOLoss attributes
    elboOut,    \* what the last ELBOLoss call did and returned
    ensOut,     \* the tensors of the last ensemble step, element by element
    oodRun      \* a test run of the single routine, score by score

vars == <<stage, self, loss, binds, created, pools, scaler, cal_model, raised,
          lastCall, opLog, steps, testLog, dm, dmOut, dec, decOut, elbo,
          elboOut, ensOut, oodRun>>

routineVars == <<stage, self, loss, binds, created, pools, scaler, cal_model,
                 raised, lastCall, opLog, steps, testLog>>
dmVars == <<dm, dmOut>>
decVars == <<dec, decOut>>
elboVars == <<elbo, elboOut>>
ensVars == <<ensOut, oodRun>>

(***************************************************************************)
(* Exceptions: the type and the source line of the raise (0: raised by the *)
(* runtime while evaluating that line's expression is recorded the same).  *)
(***************************************************************************)
NoExc == [exc |-> "none", file |-> "-", line |-> 0]

Exc(e, f, l) == [exc |-> e, file |-> f, line |-> l]

(***************************************************************************)
(* Tensor shapes.  A shape is a sequence of dimensions; <<>> is a 0-dim    *)
(* tensor.  Only the shape algebra of the torch calls the routines make.   *)
(***************************************************************************)
\* t.squeeze(-1): drops the last dimension when it is 1
Squeeze(shape) ==
    IF Len(shape) > 0 /\ shape[Len(shape)] = 1
    THEN SubSeq(shape, 1, Len(shape) - 1)
    ELSE shape

\* t.max(dim=-1)[0] and t.sum(dim=-1): reduce the last dimension
\* (a 0-dim tensor accepts dim=-1 and stays 0-dim)
ReduceLast(shape) ==
    IF Len(shape) = 0 THEN shape ELSE SubSeq(shape, 1, Len(shape) - 1)

\* whether t.mean(dim=1) is in range: torch raises IndexError otherwise
HasDim1(shape) == Len(shape) >= 2

\* t.mean(dim=1): reduce the second dimension
MeanDim1(shape) == <<shape[1]>> \o SubSeq(shape, 3, Len(shape))

\* einops rearrange(logits, "(n b) c -> b n c", n=n)
Rearrange(shape, n) == <<shape[1] \div n, n, shape[2]>>

(***************************************************************************)
(* Numbers handed to the loss constructors: a value in halves (v2 is twice *)
(* the value) and whether its Python type is int.                          *)
(***************************************************************************)
IntNum(k) == [v2 |-> 2 * k, int |-> TRUE]
FloatNum(twice) == [v2 |-> twice, int |-> FALSE]

(***************************************************************************)
(* losses.py: the constructors.  Each returns the exception __init__       *)
(* raises for the given arguments, NoExc when it returns normally.         *)
(***************************************************************************)
\* mutant: the isinstance check of line 79 left out
ELBOLossInitNoTypeCheck(criterion_is_class, kl_weight, num_samples) ==
    IF criterion_is_class THEN Exc("ValueError", "losses.py", 62)
    ELSE IF kl_weight < 0 THEN Exc("ValueError", "losses.py", 69)
    ELSE IF num_samples.v2 < 2 THEN Exc("ValueError", "losses.py", 75)
    ELSE NoExc

ELBOLossInit(criterion_is_class, kl_weight, num_samples) ==
    IF criterion_is_class THEN Exc("ValueError", "losses.py", 62)
    ELSE IF kl_weight < 0 THEN Exc("ValueError", "losses.py", 69)
    ELSE IF num_samples.v2 < 2 THEN Exc("ValueError", "losses.py", 75)
    ELSE IF ~num_samples.int THEN Exc("TypeError", "losses.py", 80)
    ELSE NoExc

NIGLossInit(reg_weight, reduction) ==
    IF reg_weight < 0 THEN Exc("ValueError", "losses.py", 124)
    ELSE IF reduction \notin {"none", "mean", "sum"}
    THEN Exc("ValueError", "losses.py", 130)
    ELSE NoExc

\* an Optional argument: None, or a value.  annealing_step and
\* current_epoch are integers, reg_weight is a fraction <<num, den>>, den > 0
Given(v) == [given |-> TRUE, v |-> v]
NotGiven == [given |-> FALSE, v |-> 0]
NoWeight == [given |-> FALSE, v |-> <<0, 1>>]

DECLossInit(annealing_step, reg_weight, loss_type, reduction) ==
    IF reg_weight.given /\ reg_weight.v[1] < 0
    THEN Exc("ValueError", "losses.py", 207)
    ELSE IF annealing_step.given /\ annealing_step.v <= 0
    THEN Exc("ValueError", "losses.py", 214)
    ELSE IF reduction \notin {"none", "mean", "sum"}
    THEN Exc("ValueError", "losses.py", 221)
    ELSE IF loss_type \notin {"mse", "log", "digamma"}
    THEN Exc("ValueError", "losses.py", 225)
    ELSE NoExc

(***************************************************************************)
(* Loss handles the routine is constructed with: a class, or a             *)
(* functools.partial of a class with keyword arguments.                    *)
(***************************************************************************)
ELBOHandle(cls, kl, ns) ==
    [func |-> "ELBOLoss", partial |-> TRUE,
     kw |-> [criterion_is_class |-> cls, kl_weight |-> kl, num_samples |-> ns]]

DECHandle(step, reg, lt, red) ==
    [func |-> "DECLoss", partial |-> TRUE,
     kw |-> [annealing_step |-> step, reg_weight |-> reg, loss_type |-> lt,
             reduction |-> red]]

NIGHandle(reg, red) ==
    [func |-> "NIGLoss", partial |-> TRUE,
     kw |-> [reg_weight |-> reg, reduction |-> red]]

ClassHandle(name) == [func |-> name, partial |-> FALSE, kw |-> [none |-> 0]]

\* handles whose constructor accepts its arguments
GoodLosses ==
    { ClassHandle("CrossEntropyLoss"),
      ELBOHandle(FALSE, 1, IntNum(1)) }

\* handles whose constructor rejects its arguments
BadLosses ==
    { ELBOHandle(FALSE, -1, IntNum(1)),
      ELBOHandle(FALSE, 1, IntNum(0)),
      ELBOHandle(FALSE, 1, FloatNum(3)),
      ELBOHandle(TRUE, 1, IntNum(1)),
      DECHandle(NotGiven, Given(<<-1, 1>>), "log", "mean"),
      DECHandle(Given(0), NoWeight, "log", "mean"),
      DECHandle(NotGiven, NoWeight, "log", "avg"),
      DECHandle(NotGiven, NoWeight, "l1", "mean"),
      NIGHandle(-1, "mean"),
      NIGHandle(1, "avg") }

\* self.loss(): calling the handle constructs the loss
LossCall(h) ==
    CASE h.func = "ELBOLoss" /\ h.partial ->
            ELBOLossInit(h.kw.criterion_is_class, h.kw.kl_weight,
                         h.kw.num_samples)
      [] h.func = "DECLoss" /\ h.partial ->
            DECLossInit(h.kw.annealing_step, h.kw.reg_weight, h.kw.loss_type,
                        h.kw.reduction)
      [] h.func = "NIGLoss" /\ h.partial ->
            NIGLossInit(h.kw.reg_weight, h.kw.reduction)
      [] OTHER -> NoExc

\* isinstance(self.loss, partial) and self.loss.func == ELBOLoss
IsElbo(h) == h.partial /\ h.func = "ELBOLoss"

(***************************************************************************)
(* routines/classification.py: construction.                               *)
(***************************************************************************)
PoolNames ==
    {"val_cls_metrics", "test_cls_metrics", "ts_cls_metrics",
     "test_ood_metrics", "test_entropy_id", "test_entropy_ood",
     "test_id_ens_metrics", "test_ood_ens_metrics"}

EmptyPools == [p \in PoolNames |-> <<>>]

\* a Python bool used as a number
B2N(b) == IF b THEN 1 ELSE 0

\* the model object handed to the routine
TheModel == "model"

\* attribute values: an attribute never assigned, None, or an object
Unassigned == [tag |-> "unassigned", model |-> "-"]
NoneValue == [tag |-> "None", model |-> "-"]

\* constructor arguments; the single routine has no use_mi and no
\* use_variation_ratio parameter
RoutineArgs(losses) ==
    { a \in [kind : {"single", "ensemble"},
             num_classes : {1, 3},
             ood_detection : BOOLEAN,
             use_entropy : BOOLEAN,
             use_logits : BOOLEAN,
             use_mi : BOOLEAN,
             use_variation_ratio : BOOLEAN,
             calibration_set : {"None", "calibration_set"},
             mixup_alpha : {0, -1},
             cutmix_alpha : {0, -1},
             mixtype : {"erm"},
             dist_sim : {"emb"},
             loss : losses] :
        a.kind = "single" => ~a.use_mi /\ ~a.use_variation_ratio }

\* pools ClassificationSingle.__init__ creates (lines 134-152)
SinglePools(a) ==
    {"val_cls_metrics", "test_cls_metrics", "test_entropy_id"}
    \cup (IF a.calibration_set # "None" THEN {"ts_cls_metrics"} ELSE {})
    \cup (IF a.ood_detection THEN {"test_ood_metrics", "test_entropy_ood"}
          ELSE {})

\* pools ClassificationEnsemble.__init__ adds (lines 495-500)
EnsemblePools(a) ==
    {"test_id_ens_metrics"}
    \cup (IF a.ood_detection THEN {"test_ood_ens_metrics"} ELSE {})

\* mutant: the multiclass collection whatever num_classes is
ClsMetricsAlwaysMulticlass(a) == {"nll", "acc", "ece", "brier"}

\* cls_metrics (lines 110-132): the accumulators of the classification
\* collection, by name
ClsMetrics(a) ==
    IF a.num_classes = 1 THEN {"acc", "ece", "brier"}
    ELSE {"nll", "acc", "ece", "brier"}

\* the accumulators of every pool __init__ creates (lines 134-152,
\* 488-500); a clone has the accumulators of its original
PoolMetrics(a) ==
    [p \in PoolNames |->
        IF p \notin SinglePools(a)
                      \cup (IF a.kind = "ensemble" THEN EnsemblePools(a)
                            ELSE {})
        THEN {}
        ELSE IF p \in {"val_cls_metrics", "test_cls_metrics",
                       "ts_cls_metrics"}
        THEN ClsMetrics(a)
        ELSE IF p \in {"test_entropy_id", "test_entropy_ood"}
        THEN {"entropy"}
        ELSE IF p = "test_ood_metrics" THEN {"fpr95", "auroc", "aupr"}
        ELSE {"disagreement", "mi", "entropy"}]

\* ClassificationSingle.__init__: the exception it raises, if any
SingleInitExc(a) ==
    IF B2N(a.use_logits) + B2N(a.use_entropy) > 1
    THEN Exc("ValueError", "classification.py", 89)
    ELSE IF a.mixup_alpha < 0 \/ a.cutmix_alpha < 0
    THEN Exc("ValueError", "classification.py", 155)
    ELSE NoExc

\* mutant: the ensemble constructor relies on the base class's two-way check
EnsembleInitExcBaseOnly(a) == SingleInitExc(a)

\* ClassificationEnsemble.__init__: super().__init__ first, then its own
\* four-way check
EnsembleInitExc(a) ==
    IF SingleInitExc(a) # NoExc THEN SingleInitExc(a)
    ELSE IF B2N(a.use_logits) + B2N(a.use_entropy) + B2N(a.use_mi)
            + B2N(a.use_variation_ratio) > 1
    THEN Exc("ValueError", "classification.py", 485)
    ELSE NoExc

InitExc(a) ==
    IF a.kind = "single" THEN SingleInitExc(a) ELSE EnsembleInitExc(a)

\* the attributes __init__ leaves on the routine
Attributes(a) ==
    [kind |-> a.kind,
     num_classes |-> a.num_classes,
     binary_cls |-> (a.num_classes = 1),
     ood_detection |-> a.ood_detection,
     use_entropy |-> a.use_entropy,
     use_logits |-> a.use_logits,
     use_mi |-> a.use_mi,
     use_variation_ratio |-> a.use_variation_ratio,
     calibration_set |-> a.calibration_set,
     mixup_alpha |-> a.mixup_alpha,
     cutmix_alpha |-> a.cutmix_alpha,
     mixtype |-> a.mixtype,
     dist_sim |-> a.dist_sim,
     metrics |-> PoolMetrics(a),
     model |-> TheModel,
     num_estimators |-> IF a.kind = "ensemble" THEN NumEstimators ELSE 1,
     is_elbo |-> IsElbo(a.loss)]

BlankAttributes ==
    Attributes([kind |-> "single", num_classes |-> 1, ood_detection |-> FALSE,
                use_entropy |-> FALSE, use_logits |-> FALSE, use_mi |-> FALSE,
                use_variation_ratio |-> FALSE, calibration_set |-> "None",
                mixup_alpha |-> 0, cutmix_alpha |-> 0,
                mixtype |-> "erm", dist_sim |-> "emb",
                loss |-> ClassHandle("CrossEntropyLoss")])

NoCall == [name |-> "none", dataloader_idx |-> -1, batch_idx |-> -1]

Call(n, d, b) == [name |-> n, dataloader_idx |-> d, batch_idx |-> b]

\* __init__ of either routine with arguments a.  When it raises no routine
\* exists; `self` then keeps the arguments of the failed call.
Construct(a) ==
    /\ stage = "new"
    /\ self' = Attributes(a)
    /\ loss' = [handle |-> a.loss, model_bound |-> FALSE]
    /\ raised' = InitExc(a)
    /\ stage' = IF InitExc(a) = NoExc THEN "ready" ELSE "failed"
    /\ created' = IF InitExc(a) # NoExc THEN {}
                  ELSE IF a.kind = "single" THEN SinglePools(a)
                  ELSE SinglePools(a) \cup EnsemblePools(a)
    /\ lastCall' = Call("__init__", -1, -1)
    /\ UNCHANGED <<binds, pools, scaler, cal_model, opLog, steps, testLog>>

(***************************************************************************)
(* The criterion property (lines 210-214).                                 *)
(***************************************************************************)
\* `self.loss = partial(self.loss, model=self.model)`: the keyword is merged
\* into the handle, and runs on every access while is_elbo
BindModel(l) ==
    IF self.is_elbo THEN [l EXCEPT !.model_bound = TRUE] ELSE l

BindCount(n) == IF self.is_elbo THEN n + 1 ELSE n

\* `return self.loss()`: ELBOLoss needs its model keyword
CriterionExc(l) ==
    IF l.handle.func = "ELBOLoss" /\ ~l.model_bound
    THEN Exc("TypeError", "classification.py", 214)
    ELSE LossCall(l.handle)

(***************************************************************************)
(* Metric pools.  A pool accumulates one entry per update: which batch,    *)
(* the shape of the predictions, which targets came with them and how many.*)
(* A callback is evaluated as a chain of frames; once a frame holds an     *)
(* exception the rest of the callback is skipped.                          *)
(***************************************************************************)
Entry(b, d, preds, target) ==
    [batch_idx |-> b, dataloader_idx |-> d, preds |-> preds,
     target |-> target, n |-> IF target = "none" THEN 0 ELSE BatchSize]

Frame0 == [pools |-> pools, opLog |-> <<>>, exc |-> NoExc]

Raise(f, e) == IF f.exc # NoExc THEN f ELSE [f EXCEPT !.exc = e]

\* self.<name>.update(...), .compute() or .reset() at source line `line`;
\* a pool __init__ did not create is a missing attribute
PoolOp(f, op, name, entry, line) ==
    IF f.exc # NoExc THEN f
    ELSE IF name \notin created
    THEN [f EXCEPT !.exc = Exc("AttributeError", "classification.py", line)]
    ELSE [f EXCEPT
            !.pools[name] = CASE op = "update" -> Append(@, entry)
                              [] op = "reset" -> <<>>
                              [] OTHER -> @,
            !.opLog = Append(@, <<op, name>>)]

Update(f, name, entry, line) == PoolOp(f, "update", name, entry, line)

\* mutant: the reset after compute is forgotten
ComputeNoReset(f, name, line) ==
    PoolOp(f, "compute", name, Entry(-1, -1, <<>>, "none"), line)

\* log_dict(pool.compute()) followed by pool.reset()
ComputeReset(f, name, line) ==
    PoolOp(PoolOp(f, "compute", name, Entry(-1, -1, <<>>, "none"), line),
           "reset", name, Entry(-1, -1, <<>>, "none"), line + 1)

\* TemperatureScaler(device).fit(model, calibration_set) returns the scaler
TemperatureScalerFit(m) == [tag |-> "TemperatureScaler", model |-> m]

\* the condition `self.calibration_set is not None and self.scaler is not
\* None and self.cal_model is not None` read at `line`: short-circuits, and
\* reading an attribute on_test_start never assigned raises
CalibrationGuard(line) ==
    IF self.calibration_set = "None" THEN [exc |-> NoExc, holds |-> FALSE]
    ELSE IF scaler = Unassigned
    THEN [exc |-> Exc("AttributeError", "classification.py", line + 1),
          holds |-> FALSE]
    ELSE IF scaler = NoneValue THEN [exc |-> NoExc, holds |-> FALSE]
    ELSE IF cal_model = Unassigned
    THEN [exc |-> Exc("AttributeError", "classification.py", line + 2),
          holds |-> FALSE]
    ELSE [exc |-> NoExc, holds |-> cal_model # NoneValue]

(***************************************************************************)
(* training_step.                                                          *)
(***************************************************************************)
\* the mixing policies __init__ knows (lines 164-199); with any other
\* mixtype self.mixup is never assigned
MixTypes ==
    {"erm", "timm", "mixup", "mixup_io", "regmixup", "kernel_warping"}

DistSims == {"emb", "inp", "other"}

\* the mixing of training_step: lines 247-256 in the single routine (with
\* kernel_warping the policy is called only for dist_sim "emb" or "inp"),
\* line 533 in the ensemble routine.  A policy is a pure function of the
\* batch; reading an unassigned self.mixup is an AttributeError.
MixupExc ==
    IF self.mixtype \in MixTypes THEN NoExc
    ELSE IF self.kind = "ensemble"
    THEN Exc("AttributeError", "classification.py", 533)
    ELSE Exc("AttributeError", "classification.py", 256)

\* mutant: the training step also feeds the validation pool
TrainingStepPoolsUpdating(f) ==
    Update(f, "val_cls_metrics",
           Entry(steps, -1, <<BatchSize>>, "targets"), 269)

\* what a callback that is not an evaluation step does to the pools
TrainingStepPools(f) == f

\* training_step of both routines (lines 244-271, 530-549): the batch is
\* mixed and formatted, the criterion property is read exactly once, the
\* loss is logged.  No metric pool is touched.
TrainingStep ==
    /\ stage = "ready" /\ raised = NoExc /\ steps < MaxSteps
    /\ loss' = IF MixupExc = NoExc THEN BindModel(loss) ELSE loss
    /\ binds' = IF MixupExc = NoExc THEN BindCount(binds) ELSE binds
    /\ raised' = IF MixupExc # NoExc THEN MixupExc
                 ELSE CriterionExc(BindModel(loss))
    /\ lastCall' = Call("training_step", -1, -1)
    /\ pools' = TrainingStepPools(Frame0).pools
    /\ opLog' = TrainingStepPools(Frame0).opLog
    /\ steps' = steps + 1
    /\ UNCHANGED <<stage, self, created, scaler, cal_model, testLog>>

(***************************************************************************)
(* on_test_start (lines 368-376).                                          *)
(***************************************************************************)
OnTestStartScaler ==
    IF self.calibration_set # "None" THEN TemperatureScalerFit(self.model)
    ELSE NoneValue

\* mutant: on_test_start fits the scaler and never builds the wrapper
OnTestStartCalModelNone == NoneValue


OnTestStartCalModel ==
    IF self.calibration_set # "None"
    THEN [tag |-> "Sequential", model |-> self.model]
    ELSE NoneValue

OnTestStart ==
    /\ stage = "ready" /\ raised = NoExc
    /\ scaler' = OnTestStartScaler
    /\ cal_model' = OnTestStartCalModel
    /\ lastCall' = Call("on_test_start", -1, -1)
    /\ opLog' = <<>>
    /\ UNCHANGED <<stage, self, loss, binds, created, pools, raised, steps,
                   testLog>>

(***************************************************************************)
(* validation_step and validation_epoch_end.                               *)
(***************************************************************************)
\* the model's output for one batch: [B, C], stacked [M*B, C] for an
\* ensemble (estimator index slowest)
Logits == <<self.num_estimators * BatchSize, self.num_classes>>

\* ClassificationSingle.validation_step (lines 276-284)
SingleValidationStep(b) ==
    LET probs == IF self.binary_cls THEN Squeeze(Logits) ELSE Logits
    IN Update(Frame0, "val_cls_metrics", Entry(b, 0, probs, "targets"), 284)

\* ClassificationEnsemble.validation_step (lines 554-563)
EnsembleValidationStep(b) ==
    LET logits == Rearrange(Logits, self.num_estimators)
        probs_per_est == IF self.binary_cls THEN Squeeze(logits) ELSE logits
    IN IF ~HasDim1(probs_per_est)
       THEN Raise(Frame0, Exc("IndexError", "classification.py", 562))
       ELSE Update(Frame0, "val_cls_metrics",
                   Entry(b, 0, MeanDim1(probs_per_est), "targets"), 563)

ValidationStepFrame(b) ==
    IF self.kind = "single" THEN SingleValidationStep(b)
    ELSE EnsembleValidationStep(b)

ValidationStep ==
    /\ stage = "ready" /\ raised = NoExc /\ steps < MaxSteps
    /\ LET f == ValidationStepFrame(Len(pools["val_cls_metrics"]))
       IN /\ pools' = f.pools
          /\ opLog' = f.opLog
          /\ raised' = f.exc
    /\ lastCall' = Call("validation_step", 0, Len(pools["val_cls_metrics"]))
    /\ steps' = steps + 1
    /\ UNCHANGED <<stage, self, loss, binds, created, scaler, cal_model,
                   testLog>>

\* validation_epoch_end (lines 289-290), shared by both routines
ValidationEpochEndFrame == ComputeReset(Frame0, "val_cls_metrics", 289)

ValidationEpochEnd ==
    /\ stage = "ready" /\ raised = NoExc
    /\ LET f == ValidationEpochEndFrame
       IN /\ pools' = f.pools
          /\ opLog' = f.opLog
          /\ raised' = f.exc
    /\ lastCall' = Call("validation_epoch_end", -1, -1)
    /\ UNCHANGED <<stage, self, loss, binds, created, scaler, cal_model,
                   steps, testLog>>

(***************************************************************************)
(* test_step.                                                              *)
(***************************************************************************)
DataloaderIdx == {0, 1, 2}

\* MutualInformation(reduction="none")(probs_per_est): one value per sample
MutualInformationShape(probs_per_est) == <<probs_per_est[1]>>

\* probs_per_est.transpose(0, 1)
Transpose01(shape) == <<shape[2], shape[1]>> \o SubSeq(shape, 3, Len(shape))

\* VariationRatio(reduction="none", probabilistic=False)(t) for t of shape
\* [estimators, batch, classes]: one value per sample
VariationRatioShape(t) == <<t[2]>>

\* the calibrated forward pass and the update of the calibrated pool
\* (lines 314-321)
CalibratedUpdate(f, b, d) ==
    LET g == CalibrationGuard(315)
    IN IF g.exc # NoExc THEN Raise(f, g.exc)
       ELSE IF g.holds
       THEN Update(f, "ts_cls_metrics",
                   Entry(b, d, <<BatchSize, self.num_classes>>, "targets"),
                   321)
       ELSE f

\* OOD score of the single routine (lines 301-312)
SingleOodValues ==
    LET logits == Logits
        probs == IF self.binary_cls THEN Squeeze(logits) ELSE logits
        confs == ReduceLast(probs)
    IN IF self.use_logits THEN ReduceLast(logits)
       ELSE IF self.use_entropy THEN ReduceLast(probs)
       ELSE confs

\* the dispatch on dataloader_idx of the single routine (lines 323-344)
SingleDispatch(f, b, d) ==
    LET probs == IF self.binary_cls THEN Squeeze(Logits) ELSE Logits
    IN IF d = 0
       THEN LET f1 == Update(f, "test_cls_metrics",
                             Entry(b, d, probs, "targets"), 324)
                f2 == Update(f1, "test_entropy_id",
                             Entry(b, d, probs, "none"), 325)
            IN IF self.ood_detection
               THEN Update(f2, "test_ood_metrics",
                           Entry(b, d, SingleOodValues, "zeros"), 333)
               ELSE f2
       ELSE IF self.ood_detection /\ d = 1
       THEN LET f1 == Update(f, "test_ood_metrics",
                             Entry(b, d, SingleOodValues, "ones"), 337)
            IN Update(f1, "test_entropy_ood", Entry(b, d, probs, "none"), 338)
       ELSE f

\* ClassificationSingle.test_step (lines 298-344)
SingleTestStep(b, d) == SingleDispatch(CalibratedUpdate(Frame0, b, d), b, d)

\* OOD score of the ensemble routine (lines 573-594): the shape, and the
\* exception the computation raises
EnsembleOodValues ==
    LET logits == Rearrange(Logits, self.num_estimators)
        probs_per_est == logits
        probs == MeanDim1(probs_per_est)
        confs == ReduceLast(probs)
    IN IF self.use_logits
       THEN [exc |-> NoExc, shape |-> ReduceLast(MeanDim1(logits))]
       ELSE IF self.use_entropy
       THEN IF HasDim1(ReduceLast(probs))
            THEN [exc |-> NoExc, shape |-> MeanDim1(ReduceLast(probs))]
            ELSE [exc |-> Exc("IndexError", "classification.py", 586),
                  shape |-> <<>>]
       ELSE IF self.use_mi
       THEN [exc |-> NoExc, shape |-> MutualInformationShape(probs_per_est)]
       ELSE IF self.use_variation_ratio
       THEN [exc |-> NoExc,
             shape |-> VariationRatioShape(Transpose01(probs_per_est))]
       ELSE [exc |-> NoExc, shape |-> confs]

\* the dispatch on dataloader_idx of the ensemble routine (lines 596-625)
EnsembleDispatch(f, b, d) ==
    LET probs_per_est == Rearrange(Logits, self.num_estimators)
        probs == MeanDim1(probs_per_est)
        ood_values == EnsembleOodValues.shape
    IN IF d = 0
       THEN LET f1 == Update(f, "test_cls_metrics",
                             Entry(b, d, IF self.binary_cls
                                         THEN Squeeze(probs) ELSE probs,
                                   "targets"), 598)
                f2 == Update(f1, "test_entropy_id",
                             Entry(b, d, probs, "none"), 602)
                f3 == Update(f2, "test_id_ens_metrics",
                             Entry(b, d, probs_per_est, "none"), 604)
            IN IF self.ood_detection
               THEN Update(f3, "test_ood_metrics",
                           Entry(b, d, ood_values, "zeros"), 613)
               ELSE f3
       ELSE IF self.ood_detection /\ d = 1
       THEN LET f1 == Update(f, "test_ood_metrics",
                             Entry(b, d, ood_values, "ones"), 617)
                f2 == Update(f1, "test_entropy_ood",
                             Entry(b, d, probs, "none"), 618)
            IN Update(f2, "test_ood_ens_metrics",
                      Entry(b, d, probs_per_est, "none"), 619)
       ELSE f

\* ClassificationEnsemble.test_step (lines 571-625): no calibrated pass
EnsembleTestStep(b, d) ==
    EnsembleDispatch(Raise(Frame0, EnsembleOodValues.exc), b, d)

TestStepFrame(b, d) ==
    IF self.kind = "single" THEN SingleTestStep(b, d)
    ELSE EnsembleTestStep(b, d)

TestStep(d) ==
    /\ stage = "ready" /\ raised = NoExc /\ steps < MaxSteps
    /\ LET f == TestStepFrame(Len(testLog), d)
       IN /\ pools' = f.pools
          /\ opLog' = f.opLog
          /\ raised' = f.exc
    /\ lastCall' = Call("test_step", d, Len(testLog))
    /\ testLog' = Append(testLog, d)
    /\ steps' = steps + 1
    /\ UNCHANGED <<stage, self, loss, binds, created, scaler, cal_model>>

(***************************************************************************)
(* test_epoch_end.                                                         *)
(***************************************************************************)
\* mutant: the OOD pool is computed and reset whether or not it exists
SingleTestEpochEndUnguarded(f) ==
    LET f1 == ComputeReset(f, "test_cls_metrics", 350)
        g == CalibrationGuard(355)
        f2 == IF g.exc # NoExc THEN Raise(f1, g.exc)
              ELSE IF g.holds THEN ComputeReset(f1, "ts_cls_metrics", 359)
              ELSE f1
    IN ComputeReset(f2, "test_ood_metrics", 364)

\* ClassificationSingle.test_epoch_end (lines 349-366)
SingleTestEpochEnd(f) ==
    LET f1 == ComputeReset(f, "test_cls_metrics", 350)
        g == CalibrationGuard(355)
        f2 == IF g.exc # NoExc THEN Raise(f1, g.exc)
              ELSE IF g.holds THEN ComputeReset(f1, "ts_cls_metrics", 359)
              ELSE f1
    IN IF self.ood_detection
       THEN ComputeReset(f2, "test_ood_metrics", 364)
       ELSE f2

\* ClassificationEnsemble.test_epoch_end (lines 630-640)
EnsembleTestEpochEnd(f) ==
    LET f1 == SingleTestEpochEnd(f)
        f2 == ComputeReset(f1, "test_id_ens_metrics", 632)
    IN IF self.ood_detection
       THEN ComputeReset(f2, "test_ood_ens_metrics", 638)
       ELSE f2

TestEpochEndFrame ==
    IF self.kind = "single" THEN SingleTestEpochEnd(Frame0)
    ELSE EnsembleTestEpochEnd(Frame0)

TestEpochEnd ==
    /\ stage = "ready" /\ raised = NoExc
    /\ LET f == TestEpochEndFrame
       IN /\ pools' = f.pools
          /\ opLog' = f.opLog
          /\ raised' = f.exc
          /\ testLog' = IF f.exc = NoExc THEN <<>> ELSE testLog
    /\ lastCall' = Call("test_epoch_end", -1, -1)
    /\ UNCHANGED <<stage, self, loss, binds, created, scaler, cal_model,
                   steps>>

(***************************************************************************)
(* The routine driven by an arbitrary trainer.                             *)
(***************************************************************************)
RoutineInit ==
    /\ stage = "new"
    /\ self = BlankAttributes
    /\ loss = [handle |-> ClassHandle("CrossEntropyLoss"),
               model_bound |-> FALSE]
    /\ binds = 0
    /\ created = {}
    /\ pools = EmptyPools
    /\ scaler = Unassigned
    /\ cal_model = Unassigned
    /\ raised = NoExc
    /\ lastCall = NoCall
    /\ opLog = <<>>
    /\ steps = 0
    /\ testLog = <<>>

DMIdle == dm = [stage |-> "new"] /\ dmOut = [tag |-> "none"]
DECIdle == dec = [stage |-> "new"] /\ decOut = [tag |-> "none"]
ELBOIdle == elbo = [stage |-> "new"] /\ elboOut = [tag |-> "none"]
EnsIdle ==
    /\ ensOut = [tag |-> "none"]
    /\ oodRun = [steps |-> <<>>, scores |-> <<>>, labels |-> <<>>]

Init == RoutineInit /\ DMIdle /\ DECIdle /\ ELBOIdle /\ EnsIdle

\* the evaluation callbacks never read the loss: one handle suffices
EvalArgs == RoutineArgs({ClassHandle("CrossEntropyLoss")})

ConstructRoutine == \E a \in EvalArgs : Construct(a)

Next ==
    \/ ConstructRoutine /\ UNCHANGED <<dmVars, decVars, elboVars, ensVars>>
    \/ ValidationStep /\ UNCHANGED <<dmVars, decVars, elboVars, ensVars>>
    \/ ValidationEpochEnd /\ UNCHANGED <<dmVars, decVars, elboVars, ensVars>>
    \/ OnTestStart /\ UNCHANGED <<dmVars, decVars, elboVars, ensVars>>
    \/ (\E d \in DataloaderIdx : TestStep(d))
       /\ UNCHANGED <<dmVars, decVars, elboVars, ensVars>>
    \/ TestEpochEnd /\ UNCHANGED <<dmVars, decVars, elboVars, ensVars>>

Spec == Init /\ [][Next]_vars

(***************************************************************************)
(* The fit phase: every loss handle, with the default OOD settings.        *)
(***************************************************************************)
TrainArgs ==
    { a \in RoutineArgs(GoodLosses \cup BadLosses) :
        /\ ~a.use_logits /\ ~a.use_entropy /\ ~a.use_mi
        /\ ~a.use_variation_ratio
        /\ a.calibration_set = "None"
        /\ a.mixup_alpha = 0 /\ a.cutmix_alpha = 0 }

\* the same arguments with every mixing policy
TrainMixArgs ==
    { [a EXCEPT !.mixtype = m, !.dist_sim = d] :
        a \in TrainArgs, m \in MixTypes \cup {"other"}, d \in DistSims }

ConstructForTraining == \E a \in TrainMixArgs : Construct(a)

NextTrain ==
    \/ ConstructForTraining /\ UNCHANGED <<dmVars, decVars, elboVars, ensVars>>
    \/ TrainingStep /\ UNCHANGED <<dmVars, decVars, elboVars, ensVars>>
    \/ ValidationStep /\ UNCHANGED <<dmVars, decVars, elboVars, ensVars>>
    \/ ValidationEpochEnd /\ UNCHANGED <<dmVars, decVars, elboVars, ensVars>>

SpecTrain == Init /\ [][NextTrain]_vars

(***************************************************************************)
(* Claims about the routines.                                              *)
(***************************************************************************)
Constructed == stage # "new"

CriteriaSingle == B2N(self.use_logits) + B2N(self.use_entropy)

CriteriaEnsemble ==
    B2N(self.use_logits) + B2N(self.use_entropy) + B2N(self.use_mi)
    + B2N(self.use_variation_ratio)

ExclusivityErrors ==
    {Exc("ValueError", "classification.py", 89),
     Exc("ValueError", "classification.py", 485)}

\* C1: a single routine with both use_logits and use_entropy, and an
\* ensemble routine with two or more of its four criteria, fail to
\* construct with a ValueError; with at most one criterion neither
\* exclusivity check raises.
C1_CriterionExclusivity ==
    Constructed =>
        /\ (self.kind = "single" /\ CriteriaSingle > 1) =>
                stage = "failed" /\ raised.exc = "ValueError"
        /\ (self.kind = "ensemble" /\ CriteriaEnsemble > 1) =>
                stage = "failed" /\ raised.exc = "ValueError"
        /\ (self.kind = "ensemble" /\ CriteriaEnsemble > 1
              /\ self.mixup_alpha = 0 /\ self.cutmix_alpha = 0) =>
                raised \in ExclusivityErrors
        /\ CriteriaEnsemble <= 1 => raised \notin ExclusivityErrors

\* an ensemble constructed with use_mi and use_variation_ratio was rejected
\* by its own four-way check
C1_Witness ==
    /\ stage = "failed" /\ self.kind = "ensemble"
    /\ self.use_mi /\ self.use_variation_ratio
    /\ ~self.use_logits /\ ~self.use_entropy
    /\ raised = Exc("ValueError", "classification.py", 485)

\* C2: no training_step raises a configuration error of the loss the
\* routine was constructed with.
C2_NoConfigErrorInTrainingStep ==
    ~(/\ lastCall.name = "training_step"
      /\ raised.file = "losses.py"
      /\ raised.exc \in {"ValueError", "TypeError"})

\* C3: with a deferred ELBO constructor the model is bound on the first
\* criterion access only.
C3_BoundExactlyOnce == self.is_elbo => binds <= 1

\* C18: a routine constructed with num_classes = 1 builds its validation,
\* test and calibrated classification pools with exactly the accumulators
\* acc, ece, brier; one with num_classes > 1 with exactly nll, acc, ece,
\* brier; the validation and the test pool have the same accumulators.
C18_BinaryOrMulticlassPools ==
    stage = "ready" =>
        LET expected == IF self.num_classes = 1
                        THEN {"acc", "ece", "brier"}
                        ELSE {"nll", "acc", "ece", "brier"}
        IN /\ self.metrics["val_cls_metrics"] = expected
           /\ self.metrics["test_cls_metrics"] = expected
           /\ "ts_cls_metrics" \in created
                 => self.metrics["ts_cls_metrics"] = expected
           /\ self.metrics["val_cls_metrics"]
                 = self.metrics["test_cls_metrics"]

\* a binary routine with a calibration set, just constructed: its
\* calibrated pool has no nll accumulator
C18_Witness ==
    /\ stage = "ready" /\ lastCall.name = "__init__"
    /\ self.num_classes = 1
    /\ "ts_cls_metrics" \in created
    /\ self.metrics["ts_cls_metrics"] = {"acc", "ece", "brier"}

\* C17: a training step, in either routine and for every mixing policy
\* and loss kind, updates no metric pool: every pool holds after the step
\* what it held before, and the step issued no pool operation.
C17_TrainingUpdatesNoPool ==
    [][(lastCall'.name = "training_step" /\ steps' = steps + 1)
          => pools' = pools /\ opLog' = <<>>]_vars

\* a training step with a mixing policy that returned a loss, taken after
\* a validation step had filled the validation pool
C17_Witness ==
    /\ lastCall.name = "training_step" /\ raised = NoExc
    /\ self.mixtype = "kernel_warping"
    /\ pools["val_cls_metrics"] # <<>>

\* 0-based positions of the test batches of this epoch whose dataloader
\* index is in S
Positions(log, S) ==
    LET F[i \in 0..Len(log)] ==
            IF i = 0 THEN <<>>
            ELSE IF log[i] \in S THEN Append(F[i - 1], i - 1)
            ELSE F[i - 1]
    IN F[Len(log)]

BatchesOf(pool) == [i \in 1..Len(pool) |-> pool[i].batch_idx]

\* one OOD entry per sample of batch b: BatchSize scores, BatchSize labels
OodEntry(b) ==
    Entry(b, testLog[b + 1], <<BatchSize>>,
          IF testLog[b + 1] = 0 THEN "zeros" ELSE "ones")

\* C4: after any sequence of test steps of a test run (on_test_start has
\* run) the ID pool holds exactly the index-0 batches, and with
\* ood_detection the OOD pool holds one entry per sample of every index-0
\* batch labelled 0 and of every index-1 batch labelled 1, and nothing else.
C4_TestRouting ==
    (stage = "ready" /\ lastCall.name = "test_step" /\ scaler # Unassigned) =>
        /\ BatchesOf(pools["test_cls_metrics"]) = Positions(testLog, {0})
        /\ self.ood_detection =>
             LET P == Positions(testLog, {0, 1})
             IN pools["test_ood_metrics"]
                    = [i \in 1..Len(P) |-> OodEntry(P[i])]

IgnoredIdx(d) == ~(d = 0 \/ (self.ood_detection /\ d = 1))

\* C5: a test step whose dataloader index is neither 0 nor, with
\* ood_detection, 1 leaves every pool and both entropy accumulators
\* unchanged.
C5_OtherIndexNoOp ==
    [][(lastCall'.name = "test_step" /\ IgnoredIdx(lastCall'.dataloader_idx))
          => pools' = pools]_vars

\* the pools of opLog, in the order first handled
Handled ==
    LET F[i \in 0..Len(opLog)] ==
            IF i = 0 THEN <<>>
            ELSE IF opLog[i][1] = "compute" THEN Append(F[i - 1], opLog[i][2])
            ELSE F[i - 1]
    IN F[Len(opLog)]

\* compute then reset of each pool of seq, in order
Lifecycle(seq) ==
    [i \in 1..(2 * Len(seq)) |->
        IF i % 2 = 1 THEN <<"compute", seq[(i + 1) \div 2]>>
        ELSE <<"reset", seq[i \div 2]>>]

Opt(c, name) == IF c THEN <<name>> ELSE <<>>

\* the pools a completed test_epoch_end handles, in the order claimed
TestEndOrder ==
    <<"test_cls_metrics">>
    \o Opt(self.calibration_set # "None", "ts_cls_metrics")
    \o Opt(self.ood_detection, "test_ood_metrics")
    \o Opt(self.kind = "ensemble", "test_id_ens_metrics")
    \o Opt(self.kind = "ensemble" /\ self.ood_detection,
           "test_ood_ens_metrics")

IsPrefix(s, t) == Len(s) <= Len(t) /\ s = SubSeq(t, 1, Len(s))

\* C6: at every validation and test epoch end each pool the hook handles
\* is computed once and then reset once, compute immediately before reset,
\* and is empty afterwards; the pools are handled in the order ID,
\* calibrated, OOD, ensemble ID, ensemble OOD.
C6_ComputeThenReset ==
    /\ lastCall.name = "validation_epoch_end" =>
         /\ opLog = Lifecycle(<<"val_cls_metrics">>)
         /\ pools["val_cls_metrics"] = <<>>
    /\ lastCall.name = "test_epoch_end" =>
         /\ opLog = Lifecycle(Handled)
         /\ IsPrefix(Handled, TestEndOrder)
         /\ raised = NoExc => Handled = TestEndOrder
         /\ \A i \in 1..Len(Handled) : pools[Handled[i]] = <<>>

\* an ensemble with OOD detection and a calibration set finished a test
\* epoch that had fed in-distribution batches
C6_Witness ==
    /\ lastCall.name = "test_epoch_end" /\ raised = NoExc
    /\ self.kind = "ensemble" /\ self.ood_detection
    /\ self.calibration_set # "None"
    /\ Len(opLog) = 10
    /\ pools["test_entropy_id"] # <<>>

\* attribute reads of the calibration guard, the only AttributeError that
\* is not a pool access
GuardLines == {316, 317, 356, 357}

\* C7: the OOD pools exist iff ood_detection, the calibrated pool iff a
\* calibration set was given; the set of pools is the one construction
\* made, and no callback touches a pool outside it.
C7_OnlyCreatedPools ==
    stage = "ready" =>
        /\ "test_ood_metrics" \in created <=> self.ood_detection
        /\ "test_ood_ens_metrics" \in created
              <=> (self.kind = "ensemble" /\ self.ood_detection)
        /\ "ts_cls_metrics" \in created <=> self.calibration_set # "None"
        /\ created =
              {"val_cls_metrics", "test_cls_metrics", "test_entropy_id"}
              \cup (IF self.calibration_set # "None"
                    THEN {"ts_cls_metrics"} ELSE {})
              \cup (IF self.ood_detection
                    THEN {"test_ood_metrics", "test_entropy_ood"} ELSE {})
              \cup (IF self.kind = "ensemble"
                    THEN {"test_id_ens_metrics"} ELSE {})
              \cup (IF self.kind = "ensemble" /\ self.ood_detection
                    THEN {"test_ood_ens_metrics"} ELSE {})
        /\ \A i \in 1..Len(opLog) : opLog[i][2] \in created
        /\ \A p \in PoolNames \ created : pools[p] = <<>>
        /\ raised.exc = "AttributeError" => raised.line \in GuardLines

\* an ensemble without OOD detection completed a test epoch after test
\* batches had been fed: neither OOD pool exists and none was touched
C7_Witness ==
    /\ lastCall.name = "test_epoch_end" /\ raised = NoExc
    /\ self.kind = "ensemble" /\ ~self.ood_detection
    /\ "test_ood_metrics" \notin created
    /\ pools["test_entropy_id"] # <<>>

IsObject(v) == v # Unassigned /\ v # NoneValue

\* C8: after on_test_start the scaler and the calibrated model are both
\* set when a calibration set was configured and both None otherwise; they
\* are always set together or unset together, and the scaler was fitted
\* against the routine's model.
C8_ScalerAndWrapperTogether ==
    stage = "ready" =>
        /\ lastCall.name = "on_test_start" =>
             IF self.calibration_set # "None"
             THEN IsObject(scaler) /\ IsObject(cal_model)
             ELSE scaler = NoneValue /\ cal_model = NoneValue
        /\ IsObject(scaler) <=> IsObject(cal_model)
        /\ scaler = NoneValue <=> cal_model = NoneValue
        /\ IsObject(scaler) =>
             /\ scaler.tag = "TemperatureScaler"
             /\ scaler.model = self.model
             /\ cal_model.model = self.model

\* on_test_start ran with a calibration set and a batch was tested after it
C8_Witness ==
    /\ self.calibration_set # "None"
    /\ IsObject(scaler) /\ IsObject(cal_model)
    /\ lastCall.name = "test_step" /\ raised = NoExc

\* C21: when a calibration artifact exists (on_test_start fitted the scaler
\* and wrapped the model), after any sequence of test steps of the epoch
\* the calibrated pool holds exactly the index-0 batches of the epoch, the
\* batches of the ID classification pool, in either routine.
C21_CalibratedPoolHoldsIdBatches ==
    (/\ stage = "ready" /\ raised = NoExc
     /\ lastCall.name = "test_step"
     /\ IsObject(scaler) /\ IsObject(cal_model)) =>
        /\ BatchesOf(pools["ts_cls_metrics"]) = Positions(testLog, {0})
        /\ BatchesOf(pools["ts_cls_metrics"])
              = BatchesOf(pools["test_cls_metrics"])

\* C22: in every test step of a test run (on_test_start has run), for
\* every OOD criterion and in binary and multiclass mode, the OOD score
\* has exactly one entry per sample of the batch: computing it raises no
\* IndexError (no reduction over a missing axis), its shape is
\* [BatchSize], and so is the shape of every score the OOD pool was
\* updated with.
C22_OneScorePerSample ==
    (stage = "ready" /\ lastCall.name = "test_step"
     /\ scaler # Unassigned) =>
        /\ raised.exc # "IndexError"
        /\ (IF self.kind = "single" THEN SingleOodValues
            ELSE EnsembleOodValues.shape) = <<BatchSize>>
        /\ \A i \in 1..Len(pools["test_ood_metrics"]) :
              pools["test_ood_metrics"][i].preds = <<BatchSize>>

\* C20: in every callback sequence, one where test_step or test_epoch_end
\* runs without a preceding on_test_start included, no test callback reads
\* self.scaler or self.cal_model before on_test_start has assigned them,
\* with or without a calibration set.
C20_NoUnassignedCalibrationRead ==
    lastCall.name \in {"test_step", "test_epoch_end"} =>
        ~(raised.exc = "AttributeError" /\ raised.line \in GuardLines)

(***************************************************************************)
(* losses.py: DECLoss.forward and its regulariser coefficient.             *)
(***************************************************************************)
\* fractions <<num, den>> with den > 0
FracEq(a, b) == a[1] * b[2] = b[1] * a[2]
FracLess(a, b) == a[1] * b[2] < b[1] * a[2]

\* mutant: torch.min left out, the ratio is not clipped
MinWithOneUnclipped(x) == x

\* torch.min(torch.tensor(1.0), torch.tensor(x))
MinWithOne(x) == IF FracLess(x, <<1, 1>>) THEN x ELSE <<1, 1>>

\* current_epoch / self.annealing_step: true division; None as an operand
\* is a TypeError
Annealed(current_epoch, annealing_step, line) ==
    IF ~current_epoch.given \/ ~annealing_step.given
    THEN [exc |-> Exc("TypeError", "losses.py", line), coef |-> <<0, 1>>]
    ELSE [exc |-> NoExc,
          coef |-> MinWithOne(<<current_epoch.v, annealing_step.v>>)]

\* mutant: with both arguments given the fixed weight wins
AnnealingCoefRegWins(annealing_step, reg_weight, current_epoch) ==
    IF ~reg_weight.given /\ ~annealing_step.given
    THEN [exc |-> NoExc, coef |-> <<0, 1>>]
    ELSE IF reg_weight.given /\ reg_weight.v[1] > 0
    THEN [exc |-> NoExc, coef |-> reg_weight.v]
    ELSE Annealed(current_epoch, annealing_step, 341)

\* line 325-327: self.reg_weight is None and self.annealing_step > 0 and
\* current_epoch > 0.  `and` short-circuits; None compared with 0 is a
\* TypeError
OnlyStepBranch(annealing_step, reg_weight, current_epoch) ==
    IF reg_weight.given THEN "false"
    ELSE IF ~annealing_step.given THEN "TypeError"
    ELSE IF ~(annealing_step.v > 0) THEN "false"
    ELSE IF ~current_epoch.given THEN "TypeError"
    ELSE IF current_epoch.v > 0 THEN "true" ELSE "false"

\* line 335: self.annealing_step is None and self.reg_weight > 0
OnlyWeightBranch(annealing_step, reg_weight) ==
    IF annealing_step.given THEN "false"
    ELSE IF ~reg_weight.given THEN "TypeError"
    ELSE IF reg_weight.v[1] > 0 THEN "true" ELSE "false"

\* the if/elif chain of lines 322-343
AnnealingCoef(annealing_step, reg_weight, current_epoch) ==
    IF ~reg_weight.given /\ ~annealing_step.given
    THEN [exc |-> NoExc, coef |-> <<0, 1>>]
    ELSE IF OnlyStepBranch(annealing_step, reg_weight, current_epoch)
            = "TypeError"
    THEN [exc |-> Exc("TypeError", "losses.py", 326), coef |-> <<0, 1>>]
    ELSE IF OnlyStepBranch(annealing_step, reg_weight, current_epoch) = "true"
    THEN Annealed(current_epoch, annealing_step, 332)
    ELSE IF OnlyWeightBranch(annealing_step, reg_weight) = "TypeError"
    THEN [exc |-> Exc("TypeError", "losses.py", 335), coef |-> <<0, 1>>]
    ELSE IF OnlyWeightBranch(annealing_step, reg_weight) = "true"
    THEN [exc |-> NoExc, coef |-> reg_weight.v]
    ELSE Annealed(current_epoch, annealing_step, 341)

\* mutant: forward without the missing-epoch check of lines 303-312
DECForwardResultNoCheck(d, current_epoch) ==
    AnnealingCoef(d.annealing_step, d.reg_weight, current_epoch)

\* DECLoss.forward (lines 303-347): the missing-epoch check, then the
\* coefficient; the loss terms read no attribute the coefficient depends on
DECForwardResult(d, current_epoch) ==
    IF d.annealing_step.given /\ d.annealing_step.v > 0
       /\ ~current_epoch.given
    THEN [exc |-> Exc("ValueError", "losses.py", 308), coef |-> <<0, 1>>]
    ELSE AnnealingCoef(d.annealing_step, d.reg_weight, current_epoch)

\* the statements of forward that have run when it returns or raises:
\* nothing before the raise of line 308; the one-hot encoding and the
\* Dirichlet term (lines 314-320) before the coefficient chain; the
\* regulariser and the sum (lines 345-347) after it
DECForwardComputed(d, current_epoch) ==
    IF DECForwardResult(d, current_epoch).exc
          = Exc("ValueError", "losses.py", 308)
    THEN <<>>
    ELSE IF DECForwardResult(d, current_epoch).exc # NoExc
    THEN <<"one_hot", "loss_dirichlet">>
    ELSE <<"one_hot", "loss_dirichlet", "annealing_coef", "loss_reg", "loss">>

AnnealingSteps == {NotGiven, Given(0), Given(1), Given(2), Given(3)}

RegWeights ==
    {NoWeight, Given(<<-1, 1>>), Given(<<0, 1>>), Given(<<1, 2>>),
     Given(<<1, 1>>), Given(<<2, 1>>)}

LossTypes == {"mse", "log", "digamma", "l1"}

Reductions == {"none", "mean", "sum", "avg"}

CurrentEpochs == {NotGiven} \cup {Given(e) : e \in 0..MaxEpoch}

\* DECLoss.__init__ (lines 197-228)
DECConstruct(step, reg, lt, red) ==
    /\ dec.stage = "new"
    /\ dec' = [stage |-> IF DECLossInit(step, reg, lt, red) = NoExc
                         THEN "ready" ELSE "failed",
               annealing_step |-> step, reg_weight |-> reg,
               loss_type |-> lt, reduction |-> red,
               exc |-> DECLossInit(step, reg, lt, red)]
    /\ UNCHANGED decOut

DECForward(current_epoch) ==
    /\ dec.stage = "ready"
    /\ decOut' = [tag |-> "forward", current_epoch |-> current_epoch,
                  exc |-> DECForwardResult(dec, current_epoch).exc,
                  coef |-> DECForwardResult(dec, current_epoch).coef,
                  computed |-> DECForwardComputed(dec, current_epoch)]
    /\ UNCHANGED dec

InitDEC == RoutineInit /\ DMIdle /\ DECIdle /\ ELBOIdle /\ EnsIdle

NextDEC ==
    \/ (\E step \in AnnealingSteps, reg \in RegWeights, lt \in LossTypes,
           red \in Reductions : DECConstruct(step, reg, lt, red))
       /\ UNCHANGED <<routineVars, dmVars, elboVars, ensVars>>
    \/ (\E e \in CurrentEpochs : DECForward(e))
       /\ UNCHANGED <<routineVars, dmVars, elboVars, ensVars>>

SpecDEC == InitDEC /\ [][NextDEC]_vars

\* min(1, e / S) for integers e and S > 0
ClippedRatio(e, S) == IF e >= S THEN <<1, 1>> ELSE <<e, S>>

\* a forward call that got past the missing-epoch check
SelectedCoef ==
    /\ dec.stage = "ready" /\ decOut.tag = "forward"
    /\ decOut.exc # Exc("ValueError", "losses.py", 308)

\* C10: the coefficient table of DECLoss.forward: neither argument -> 0;
\* only annealing_step and current_epoch > 0 -> min(1, epoch/step); only a
\* positive reg_weight -> reg_weight; both -> min(1, epoch/step), reg_weight
\* ignored.
C10_CoefficientTable ==
    SelectedCoef =>
        LET S == dec.annealing_step
            w == dec.reg_weight
            e == decOut.current_epoch
        IN /\ (~w.given /\ ~S.given) =>
                decOut.exc = NoExc /\ FracEq(decOut.coef, <<0, 1>>)
           /\ (~w.given /\ S.given /\ e.given /\ e.v > 0) =>
                /\ decOut.exc = NoExc
                /\ FracEq(decOut.coef, ClippedRatio(e.v, S.v))
           /\ (w.given /\ w.v[1] > 0 /\ ~S.given) =>
                decOut.exc = NoExc /\ FracEq(decOut.coef, w.v)
           /\ (w.given /\ S.given) =>
                /\ decOut.exc = NoExc
                /\ e.given
                /\ FracEq(decOut.coef, ClippedRatio(e.v, S.v))

\* both arguments given, and the coefficient selected differs from
\* reg_weight
C10_Witness ==
    /\ SelectedCoef /\ decOut.exc = NoExc
    /\ dec.reg_weight.given /\ dec.annealing_step.given
    /\ dec.reg_weight.v[1] > 0
    /\ ~FracEq(decOut.coef, dec.reg_weight.v)
    /\ ~FracEq(decOut.coef, <<1, 1>>)

\* a forward call with an epoch, on a loss constructed with annealing_step
AnnealedCall(out) ==
    /\ dec.stage = "ready" /\ dec.annealing_step.given
    /\ out.tag = "forward" /\ out.current_epoch.given

\* C11: for a fixed annealing_step S > 0, with or without reg_weight, the
\* coefficient is non-decreasing in current_epoch over the epochs e >= 0
\* (any two successive calls on the same loss, the later with the larger
\* epoch, select coefficients in the same order) and is exactly 1 for
\* every e >= S.
C11_MonotoneCoefficient ==
    [][AnnealedCall(decOut') =>
         /\ decOut'.exc = NoExc
         /\ (decOut'.current_epoch.v >= dec.annealing_step.v
               => decOut'.coef = <<1, 1>>)
         /\ (AnnealedCall(decOut)
               /\ decOut.current_epoch.v <= decOut'.current_epoch.v
               => ~FracLess(decOut'.coef, decOut.coef))]_vars

\* an annealed call strictly inside the ramp: 0 < e < S, coefficient e/S
C11_Witness ==
    /\ AnnealedCall(decOut) /\ decOut.exc = NoExc
    /\ ~dec.reg_weight.given
    /\ decOut.current_epoch.v > 0
    /\ decOut.current_epoch.v < dec.annealing_step.v
    /\ FracLess(<<0, 1>>, decOut.coef) /\ FracLess(decOut.coef, <<1, 1>>)

\* C12: forward without current_epoch raises the ValueError of line 308
\* exactly when annealing_step is configured (positive), and raises it
\* before any loss term is computed.
C12_MissingEpoch ==
    (dec.stage = "ready" /\ decOut.tag = "forward"
     /\ ~decOut.current_epoch.given) =>
        /\ (dec.annealing_step.given /\ dec.annealing_step.v > 0)
             <=> decOut.exc = Exc("ValueError", "losses.py", 308)
        /\ decOut.exc = Exc("ValueError", "losses.py", 308)
             => decOut.computed = <<>>

\* a call without an epoch on an annealed loss: it raised, nothing computed
C12_Witness ==
    /\ dec.stage = "ready" /\ decOut.tag = "forward"
    /\ ~decOut.current_epoch.given
    /\ dec.annealing_step.given
    /\ decOut.exc.exc = "ValueError" /\ decOut.computed = <<>>

\* C19: for every configuration the constructor accepts and every call past
\* the missing-epoch check, forward selects a coefficient: it does not
\* reach current_epoch / annealing_step with either operand None.
C19_CoefficientDefined ==
    SelectedCoef => decOut.exc = NoExc

(***************************************************************************)
(* losses.py: KLDiv and ELBOLoss.  A forward pass of the Bayesian model    *)
(* leaves on each of its modules the log-posterior and the log-prior of    *)
(* the weights it sampled; a draw is what one pass leaves: the criterion's *)
(* value on its logits, and the modules.                                   *)
(***************************************************************************)
Module(bayesian, lvposterior, lprior) ==
    [bayesian |-> bayesian, lvposterior |-> lvposterior, lprior |-> lprior]

\* the modules of the model after a pass: one deterministic layer, one
\* Bayesian layer
ModulesAfterPass ==
    {<<Module(FALSE, 0, 0), Module(TRUE, d[1], d[2])>> :
        d \in {<<0, 0>>, <<1, 0>>, <<0, 1>>}}

Draws == [crit : 0..1, modules : ModulesAfterPass]

\* KLDiv._kl_div (lines 27-36): the sum over the Bayesian modules
RECURSIVE KLDivSum(_, _)
KLDivSum(modules, i) ==
    IF i > Len(modules) THEN 0
    ELSE (IF modules[i].bayesian
          THEN modules[i].lvposterior - modules[i].lprior ELSE 0)
         + KLDivSum(modules, i + 1)

KLDiv(modules) == KLDivSum(modules, 1)

\* the loop of ELBOLoss.forward (lines 98-101): pass i reads draw i
RECURSIVE ELBOLoop(_, _, _, _, _)
ELBOLoop(l, draws, i, aggregated_elbo, calls) ==
    IF i > l.num_samples.v2 \div 2
    THEN [aggregated_elbo |-> aggregated_elbo, calls |-> calls]
    ELSE ELBOLoop(l, draws, i + 1,
                  aggregated_elbo + draws[i].crit
                      + l.kl_weight * KLDiv(draws[i].modules),
                  calls \o <<"model", "criterion", "_kl_div">>)

\* mutant: the sum over the draws is returned undivided
ELBOLossForwardNoMean(l, draws) ==
    [value |-> <<ELBOLoop(l, draws, 1, 0, <<>>).aggregated_elbo, 1>>,
     calls |-> ELBOLoop(l, draws, 1, 0, <<>>).calls]

\* ELBOLoss.forward (lines 97-102)
ELBOLossForward(l, draws) ==
    [value |-> <<ELBOLoop(l, draws, 1, 0, <<>>).aggregated_elbo,
                 l.num_samples.v2 \div 2>>,
     calls |-> ELBOLoop(l, draws, 1, 0, <<>>).calls]

KLWeights == {-1, 0, 1, 2}

NumSamples ==
    {IntNum(k) : k \in 0..MaxSamples}
        \cup {FloatNum(t) : t \in {1, 3, 2 * MaxSamples}}

\* ELBOLoss.__init__ (lines 50-84)
ELBOConstruct(criterion_is_class, kl_weight, num_samples) ==
    /\ elbo.stage = "new"
    /\ elbo' = [stage |-> IF ELBOLossInit(criterion_is_class, kl_weight,
                                          num_samples) = NoExc
                          THEN "ready" ELSE "failed",
                criterion_is_class |-> criterion_is_class,
                kl_weight |-> kl_weight, num_samples |-> num_samples,
                exc |-> ELBOLossInit(criterion_is_class, kl_weight,
                                     num_samples)]
    /\ UNCHANGED elboOut

\* ELBOLoss.forward on a model whose successive passes leave `draws`
ELBOForward(draws) ==
    /\ elbo.stage = "ready"
    /\ elboOut' = [tag |-> "forward", draws |-> draws,
                   value |-> ELBOLossForward(elbo, draws).value,
                   calls |-> ELBOLossForward(elbo, draws).calls]
    /\ UNCHANGED elbo

InitELBO == RoutineInit /\ DMIdle /\ DECIdle /\ ELBOIdle /\ EnsIdle

NextELBO ==
    \/ (\E c \in BOOLEAN, w \in KLWeights, n \in NumSamples :
           ELBOConstruct(c, w, n))
       /\ UNCHANGED <<routineVars, dmVars, decVars, ensVars>>
    \/ (\E draws \in [1..MaxSamples -> Draws] : ELBOForward(draws))
       /\ UNCHANGED <<routineVars, dmVars, decVars, ensVars>>

SpecELBO == InitELBO /\ [][NextELBO]_vars

\* C13: ELBOLoss construction fails exactly when kl_weight < 0, or
\* num_samples < 1, or num_samples is not an int, or the criterion is a
\* class; a non-int num_samples is rejected below 1 and from 1 on.
C13_ELBOConstruction ==
    elbo.stage # "new" =>
        /\ elbo.stage = "failed" <=> elbo.exc # NoExc
        /\ elbo.exc # NoExc <=>
              \/ elbo.kl_weight < 0
              \/ elbo.num_samples.v2 < 2
              \/ ~elbo.num_samples.int
              \/ elbo.criterion_is_class
        /\ elbo.exc.exc \in {"none", "ValueError", "TypeError"}

\* a non-int num_samples of at least 1, everything else valid: rejected
C13_Witness ==
    /\ elbo.stage = "failed"
    /\ ~elbo.criterion_is_class /\ elbo.kl_weight >= 0
    /\ ~elbo.num_samples.int /\ elbo.num_samples.v2 >= 2
    /\ elbo.exc.exc = "TypeError"

\* the sum over the first n draws of criterion + kl_weight * KL
RECURSIVE SumOfDraws(_, _, _)
SumOfDraws(draws, n, w) ==
    IF n = 0 THEN 0
    ELSE SumOfDraws(draws, n - 1, w)
         + draws[n].crit + w * KLDiv(draws[n].modules)

PassCalls(calls, name) ==
    Cardinality({i \in 1..Len(calls) : calls[i] = name})

\* C14: forward runs exactly num_samples model passes, gathers the KL once
\* after each pass, and returns the sum over the draws of
\* criterion + kl_weight * KL divided by num_samples; when every pass
\* leaves the same draw (deterministic model and criterion) the result is
\* the single-sample loss, whatever num_samples is.
C14_ELBOAveraging ==
    (elbo.stage = "ready" /\ elboOut.tag = "forward") =>
        LET n == elbo.num_samples.v2 \div 2
            d == elboOut.draws
        IN /\ PassCalls(elboOut.calls, "model") = n
           /\ PassCalls(elboOut.calls, "_kl_div") = n
           /\ \A i \in 1..Len(elboOut.calls) :
                 elboOut.calls[i] = "_kl_div" =>
                     i > 2 /\ elboOut.calls[i - 2] = "model"
           /\ FracEq(elboOut.value, <<SumOfDraws(d, n, elbo.kl_weight), n>>)
           /\ (\A i \in 1..n : d[i] = d[1]) =>
                 FracEq(elboOut.value,
                        <<d[1].crit
                            + elbo.kl_weight * KLDiv(d[1].modules), 1>>)

\* several identical draws with a non-zero loss and a weighted KL term
C14_Witness ==
    /\ elbo.stage = "ready" /\ elboOut.tag = "forward"
    /\ elbo.num_samples.v2 \div 2 >= 2
    /\ elbo.kl_weight > 0
    /\ \A i \in 1..(elbo.num_samples.v2 \div 2) :
          elboOut.draws[i] = elboOut.draws[1]
    /\ KLDiv(elboOut.draws[1].modules) # 0
    /\ elboOut.value[1] # 0
    /\ Len(elboOut.calls) = 3 * (elbo.num_samples.v2 \div 2)

(***************************************************************************)
(* The ensemble steps element by element.  The model stacks the logits of  *)
(* its estimators along the batch axis; a tensor is a sequence of rows, a  *)
(* probability is recorded as the function applied and its argument.       *)
(***************************************************************************)
\* stacked logits [M*B, C] whose element (r, c) is a * (r-1) + k * (c-1)
StackedLogits(M, B, C, a, k) ==
    [r \in 1..(M * B) |-> [c \in 1..C |-> a * (r - 1) + k * (c - 1)]]

\* mutant: the pattern "(b n) c -> b n c", estimator index fastest
RearrangeLogitsEstimatorFastest(logits, n) ==
    [b \in 1..(Len(logits) \div n) |->
        [m \in 1..n |-> logits[(b - 1) * n + m]]]

\* einops.rearrange(logits, "(n b) c -> b n c", n=n) (lines 556, 573): the
\* first axis is split row-major into (n, b), then the two are swapped
RearrangeLogits(logits, n) ==
    LET b_size == Len(logits) \div n
        split == [m \in 1..n |-> [b \in 1..b_size |->
                    logits[CHOOSE r \in 1..Len(logits) :
                              /\ (r - 1) \div b_size = m - 1
                              /\ (r - 1) % b_size = b - 1]]]
    IN [b \in 1..b_size |-> [m \in 1..n |-> split[m][b]]]

\* F.softmax(row, dim=-1) and torch.sigmoid, element c of the result
Softmax(row) ==
    [c \in 1..Len(row) |-> [fn |-> "softmax", of |-> row, c |-> c]]
Sigmoid(row) ==
    [c \in 1..Len(row) |-> [fn |-> "sigmoid", of |-> <<row[c]>>, c |-> 1]]

\* Tensor.mean(dim=1) of a [B, M, C] tensor, and of a [B, M] tensor
MeanOverDim1(t) ==
    [b \in 1..Len(t) |-> [c \in 1..Len(t[b][1]) |->
        [mean_of |-> [m \in 1..Len(t[b]) |-> t[b][m][c]]]]]
MeanOverDim1Squeezed(t) ==
    [b \in 1..Len(t) |-> [mean_of |-> t[b]]]

\* ClassificationEnsemble.validation_step, lines 555-562
EnsembleValidationProbs(logits, n, binary_cls) ==
    LET r == RearrangeLogits(logits, n)
    IN IF binary_cls
       THEN \* torch.sigmoid(logits).squeeze(-1), then mean(dim=1)
            MeanOverDim1Squeezed(
                [b \in 1..Len(r) |-> [m \in 1..n |-> Sigmoid(r[b][m])[1]]])
       ELSE MeanOverDim1(
                [b \in 1..Len(r) |-> [m \in 1..n |-> Softmax(r[b][m])]])

\* ClassificationEnsemble.test_step, lines 572-580
EnsembleTestProbs(logits, n, binary_cls) ==
    LET r == RearrangeLogits(logits, n)
    IN MeanOverDim1(
           [b \in 1..Len(r) |-> [m \in 1..n |->
               IF binary_cls THEN Sigmoid(r[b][m]) ELSE Softmax(r[b][m])]])

EnsembleStepTensors(step, stacked, n) ==
    /\ ensOut' =
         [tag |-> step, num_estimators |-> n, stacked |-> stacked,
          binary_cls |-> (Len(stacked[1]) = 1),
          logits |-> RearrangeLogits(stacked, n),
          probs |-> IF step = "validation_step"
                    THEN EnsembleValidationProbs(stacked, n,
                                                 Len(stacked[1]) = 1)
                    ELSE EnsembleTestProbs(stacked, n, Len(stacked[1]) = 1)]
    /\ UNCHANGED oodRun

InitEns == RoutineInit /\ DMIdle /\ DECIdle /\ ELBOIdle /\ EnsIdle

NextEns ==
    \/ (\E M \in 1..NumEstimators, B \in 1..BatchSize, C \in 1..MaxClasses,
          a \in 0..MaxClasses, k \in 0..1 :
           EnsembleStepTensors("validation_step",
                               StackedLogits(M, B, C, a, k), M))
       /\ UNCHANGED <<routineVars, dmVars, decVars, elboVars>>
    \/ (\E M \in 1..NumEstimators, B \in 1..BatchSize, C \in 1..MaxClasses,
          a \in 0..MaxClasses, k \in 0..1 :
           EnsembleStepTensors("test_step", StackedLogits(M, B, C, a, k), M))
       /\ UNCHANGED <<routineVars, dmVars, decVars, elboVars>>

SpecEns == InitEns /\ [][NextEns]_vars

\* the probability estimator e gives class c of sample b
EstimatorProb(out, b, e, c) ==
    LET row == out.stacked[(e - 1) * (Len(out.stacked)
                                       \div out.num_estimators) + b]
    IN IF out.binary_cls THEN Sigmoid(row)[c] ELSE Softmax(row)[c]

\* C15: the ensemble validation and test steps reshape the stacked logits
\* [M*B, C] (estimator index slowest) to [B, M, C] with element [b, e, c]
\* the original element of row e*B + b, column c (indices from 0; here from
\* 1: row (e-1)*B + b), and the aggregate probability of sample b is the
\* mean over e of the per-estimator probabilities.
C15_EnsembleReshape ==
    ensOut.tag # "none" =>
        LET M == ensOut.num_estimators
            B == Len(ensOut.stacked) \div M
            C == Len(ensOut.stacked[1])
        IN /\ Len(ensOut.logits) = B
           /\ Len(ensOut.probs) = B
           /\ \A b \in 1..B :
                /\ Len(ensOut.logits[b]) = M
                /\ \A e \in 1..M :
                     /\ Len(ensOut.logits[b][e]) = C
                     /\ \A c \in 1..C :
                          /\ ensOut.logits[b][e][c]
                               = ensOut.stacked[(e - 1) * B + b][c]
                          /\ IF ensOut.tag = "validation_step"
                                /\ ensOut.binary_cls
                             THEN ensOut.probs[b].mean_of[e]
                                    = EstimatorProb(ensOut, b, e, c)
                             ELSE ensOut.probs[b][c].mean_of[e]
                                    = EstimatorProb(ensOut, b, e, c)
                /\ IF ensOut.tag = "validation_step" /\ ensOut.binary_cls
                   THEN Len(ensOut.probs[b].mean_of) = M
                   ELSE \A c \in 1..C : Len(ensOut.probs[b][c].mean_of) = M

\* a test step on several estimators, samples and classes whose stacked
\* logits are pairwise different
C15_Witness ==
    /\ ensOut.tag = "test_step"
    /\ ensOut.num_estimators >= 2
    /\ Len(ensOut.stacked) >= 2 * ensOut.num_estimators
    /\ Len(ensOut.stacked[1]) >= 2
    /\ \A r1, r2 \in 1..Len(ensOut.stacked) :
          \A c1, c2 \in 1..Len(ensOut.stacked[1]) :
              ensOut.stacked[r1][c1] = ensOut.stacked[r2][c2]
                  => r1 = r2 /\ c1 = c2
    /\ ensOut.logits[2][1] = ensOut.stacked[2]

(***************************************************************************)
(* The single routine's test step score by score: two classes, OOD         *)
(* detection on, the default (confidence) criterion.  Probabilities and    *)
(* scores are in thousandths.                                              *)
(***************************************************************************)
Abs(x) == IF x < 0 THEN -x ELSE x

\* F.softmax(row, dim=-1).max(dim=-1)[0] of a two-class row (lines 304-305):
\* 1 / (1 + exp(-|row[1] - row[2]|)), to three decimals
SoftmaxMax ==
    [d \in 0..4 |-> <<500, 731, 881, 953, 982>>[d + 1]]

Confidence(row) == SoftmaxMax[Abs(row[1] - row[2])]

\* mutant: the confidence itself as the OOD score
OodValueUnnegated(row) == Confidence(row)

\* ood_values = -confs (line 312)
OodValue(row) == -Confidence(row)

LogitRows == {<<2, -2>>, <<-2, 2>>, <<1, 1>>, <<3, 0>>, <<0, 0>>}

IdBatch == << <<2, -2>>, <<-2, 2>>, <<1, 1>>, <<3, 0>> >>
OodBatch == << <<0, 0>>, <<0, 0>>, <<0, 0>>, <<0, 0>> >>

\* the logits of a batch of four samples
LogitBatches ==
    {IdBatch, OodBatch} \cup {<<row, row, row, row>> : row \in LogitRows}

\* what test_step hands to test_ood_metrics.update (lines 323-337): the
\* score of every sample, with torch.zeros_like(targets) for index 0 and
\* torch.ones_like(targets) for index 1
TestStepScores(logits, dataloader_idx) ==
    /\ Len(oodRun.steps) < MaxSteps
    /\ oodRun' =
         [steps |-> Append(oodRun.steps,
                           [dataloader_idx |-> dataloader_idx,
                            logits |-> logits]),
          scores |-> IF dataloader_idx \in {0, 1}
                     THEN oodRun.scores
                            \o [i \in 1..Len(logits) |-> OodValue(logits[i])]
                     ELSE oodRun.scores,
          labels |-> IF dataloader_idx \in {0, 1}
                     THEN oodRun.labels
                            \o [i \in 1..Len(logits) |-> dataloader_idx]
                     ELSE oodRun.labels]
    /\ UNCHANGED ensOut

InitOod == RoutineInit /\ DMIdle /\ DECIdle /\ ELBOIdle /\ EnsIdle

NextOod ==
    (\E logits \in LogitBatches, d \in DataloaderIdx :
        TestStepScores(logits, d))
    /\ UNCHANGED <<routineVars, dmVars, decVars, elboVars>>

SpecOod == InitOod /\ [][NextOod]_vars

\* twice the number of (OOD, ID) pairs the scores order correctly, a tie
\* counted one half, over twice the number of pairs
RECURSIVE PairSum(_, _, _)
PairSum(scores, labels, k) ==
    IF k = 0 THEN 0
    ELSE LET n == Len(scores)
             i == ((k - 1) \div n) + 1
             j == ((k - 1) % n) + 1
         IN PairSum(scores, labels, k - 1)
            + (IF labels[i] = 1 /\ labels[j] = 0
               THEN (IF scores[i] > scores[j] THEN 2
                     ELSE IF scores[i] = scores[j] THEN 1 ELSE 0)
               ELSE 0)

AUROC(scores, labels) ==
    <<PairSum(scores, labels, Len(scores) * Len(scores)),
      2 * Cardinality({i \in 1..Len(labels) : labels[i] = 1})
        * Cardinality({i \in 1..Len(labels) : labels[i] = 0})>>

\* the end-to-end scenario: the ID batch on index 0, then the OOD batch on
\* index 1
ScenarioRun ==
    oodRun.steps = <<[dataloader_idx |-> 0, logits |-> IdBatch],
                     [dataloader_idx |-> 1, logits |-> OodBatch]>>

ScenarioPool ==
    /\ oodRun.scores = <<-982, -982, -500, -953, -500, -500, -500, -500>>
    /\ oodRun.labels = <<0, 0, 0, 0, 1, 1, 1, 1>>

\* C16 as stated: in the end-to-end scenario the OOD pool holds the scores
\* -0.982, -0.982, -0.5, -0.953, -0.5, -0.5, -0.5, -0.5 with the labels
\* 0,0,0,0,1,1,1,1, and their AUROC (ties one half) lies in (0.9, 1.0].
C16_ScenarioAsStated ==
    ScenarioRun =>
        /\ ScenarioPool
        /\ FracLess(<<9, 10>>, AUROC(oodRun.scores, oodRun.labels))
        /\ ~FracLess(<<1, 1>>, AUROC(oodRun.scores, oodRun.labels))

\* C16 (amended): in the end-to-end scenario the OOD pool holds those scores
\* with those labels, and their AUROC (ties one half) is 0.875: each of the
\* four OOD scores beats three ID scores and ties with the fourth.
C16_ScenarioAUROC ==
    ScenarioRun =>
        /\ ScenarioPool
        /\ FracEq(AUROC(oodRun.scores, oodRun.labels), <<7, 8>>)

C16_Witness ==
    /\ ScenarioRun
    /\ Len(oodRun.scores) = 8
    /\ AUROC(oodRun.scores, oodRun.labels)[2] > 0

(***************************************************************************)
(* datamodules/tiny_imagenet.py.                                           *)
(***************************************************************************)
NoDataset == "unassigned"

OodDatasetNames == {"imagenet-o", "svhn", "textures"}

\* self.ood as setup builds it (lines 139-168)
OodDataset(ood_ds) ==
    CASE ood_ds = "textures" -> "ConcatDataset(DTD train, DTD val, DTD test)"
      [] ood_ds = "imagenet-o" -> "ImageNetO test"
      [] ood_ds = "svhn" -> "SVHN test"
      [] OTHER -> NoDataset

AllOodDatasets == {OodDataset(n) : n \in OodDatasetNames}

\* TinyImageNetDataModule.__init__ (lines 23-78); self.ood_dataset is
\* assigned only for the three known names
DMConstruct(ood_detection, ood_ds, batch_size) ==
    /\ dm.stage = "new"
    /\ dm' = [stage |-> "ready", ood_detection |-> ood_detection,
              ood_ds |-> ood_ds, batch_size |-> batch_size,
              has_ood_dataset |-> ood_ds \in OodDatasetNames,
              train |-> NoDataset, val |-> NoDataset, test |-> NoDataset,
              ood |-> NoDataset]
    /\ UNCHANGED dmOut

DMReady == dm.stage = "ready" /\ dmOut.tag # "raised"

\* setup(stage) (lines 120-168)
SetupResult(d, st) ==
    LET d1 == IF st = "fit" \/ st = "None"
              THEN [d EXCEPT !.train = "TinyImageNet train",
                             !.val = "TinyImageNet val"]
              ELSE d
        d2 == IF st = "test" THEN [d1 EXCEPT !.test = "TinyImageNet val"]
              ELSE d1
    IN IF ~d.ood_detection THEN [dm |-> d2, exc |-> NoExc]
       ELSE IF d.ood_ds # "textures" /\ ~d.has_ood_dataset
       THEN [dm |-> d2, exc |-> Exc("AttributeError", "tiny_imagenet.py", 164)]
       ELSE [dm |-> [d2 EXCEPT !.ood = OodDataset(d.ood_ds)], exc |-> NoExc]

DMSetup(st) ==
    /\ DMReady
    /\ dm' = SetupResult(dm, st).dm
    /\ dmOut' = IF SetupResult(dm, st).exc = NoExc
                THEN [tag |-> "none"]
                ELSE [tag |-> "raised", exc |-> SetupResult(dm, st).exc]

\* self._data_loader(dataset): a loader over the dataset with the module's
\* batch size
DataLoader(d, dataset) == [dataset |-> dataset, batch_size |-> d.batch_size]

\* mutant: the OOD loader is put in front of the test loader
TestDataloaderOodFirst(d) ==
    IF d.test = NoDataset
    THEN [tag |-> "raised", exc |-> Exc("AttributeError", "tiny_imagenet.py", 177)]
    ELSE IF ~d.ood_detection
    THEN [tag |-> "list", value |-> <<DataLoader(d, d.test)>>]
    ELSE IF d.ood = NoDataset
    THEN [tag |-> "raised", exc |-> Exc("AttributeError", "tiny_imagenet.py", 179)]
    ELSE [tag |-> "list",
          value |-> <<DataLoader(d, d.ood), DataLoader(d, d.test)>>]

\* test_dataloader (lines 177-180); an attribute setup never assigned is an
\* AttributeError
TestDataloader(d) ==
    IF d.test = NoDataset
    THEN [tag |-> "raised", exc |-> Exc("AttributeError", "tiny_imagenet.py", 177)]
    ELSE IF ~d.ood_detection
    THEN [tag |-> "list", value |-> <<DataLoader(d, d.test)>>]
    ELSE IF d.ood = NoDataset
    THEN [tag |-> "raised", exc |-> Exc("AttributeError", "tiny_imagenet.py", 179)]
    ELSE [tag |-> "list",
          value |-> Append(<<DataLoader(d, d.test)>>, DataLoader(d, d.ood))]

DMTestDataloader ==
    /\ DMReady
    /\ dmOut' = TestDataloader(dm)
    /\ UNCHANGED dm

InitDM == RoutineInit /\ DMIdle /\ DECIdle /\ ELBOIdle /\ EnsIdle

NextDM ==
    \/ (\E o \in BOOLEAN, n \in OodDatasetNames \cup {"cifar10"},
           b \in 1..MaxBatchSize : DMConstruct(o, n, b))
       /\ UNCHANGED <<routineVars, decVars, elboVars, ensVars>>
    \/ (\E st \in {"fit", "test", "None"} : DMSetup(st))
       /\ UNCHANGED <<routineVars, decVars, elboVars, ensVars>>
    \/ DMTestDataloader /\ UNCHANGED <<routineVars, decVars, elboVars, ensVars>>

SpecDM == InitDM /\ [][NextDM]_vars

\* C9: test_dataloader returns a list whose element 0 loads the
\* in-distribution test set and whose element 1, present iff ood_detection,
\* loads the OOD set; never more than two loaders, never the OOD loader
\* first.
C9_TestLoaderOrder ==
    (dm.stage = "ready" /\ dmOut.tag = "list") =>
        LET l == dmOut.value
        IN /\ Len(l) \in {1, 2}
           /\ l[1].dataset = dm.test
           /\ l[1].dataset = "TinyImageNet val"
           /\ l[1].dataset \notin AllOodDatasets
           /\ Len(l) = 2 <=> dm.ood_detection
           /\ Len(l) = 2 =>
                /\ l[2].dataset = dm.ood
                /\ l[2].dataset \in AllOodDatasets

\* a datamodule with OOD detection returned its two loaders
C9_Witness ==
    /\ dm.stage = "ready" /\ dmOut.tag = "list"
    /\ dm.ood_detection /\ Len(dmOut.value) = 2
    /\ dmOut.value[2].dataset = "SVHN test"

====
